---- MODULE Spec2Model ----
(***************************************************************************)
(* Model of the RAG chatbot backend: backend/app.py (chat, upload_pdf,     *)
(* delete_document, build_refinement_messages), backend/vector_store.py    *)
(* (VectorStore over one Chroma collection) and backend/pdf_processor.py   *)
(* (process_pdf, create_query_embedding).                                  *)
(*                                                                         *)
(* Texts are sequences of words.  Embeddings are points on a line and the  *)
(* cosine distance between two of them is their gap, in hundredths (so     *)
(* the relevance threshold 0.6 is 60 and the range 0..2 is 0..200).        *)
(* Combined scores are kept exact by scaling them to integers.             *)
(* The shutdown hook (app.py 573-609) ends the process and is not an       *)
(* operation of the running service; it is not modelled.                   *)
(***************************************************************************)
EXTENDS Integers, Sequences, FiniteSets, TLC

VARIABLES conversations, store, files, next_doc, last, hq

vars == <<conversations, store, files, next_doc, last, hq>>

(***************************************************************************)
(* Bounds of the model.                                                    *)
(***************************************************************************)
MaxMsgs == 2
MaxDocs == 1
MaxTopK == 2
MaxStoreDocs == 2

(***************************************************************************)
(* Program constants.                                                      *)
(***************************************************************************)
RelevanceThreshold == 60
ChatTopK == 5
MaxFileSizeMB == 10
SearchBlockLimit == 3
SnippetLimit == 200
NumResults == 5
SemanticWeight == 7
KeywordWeight == 3
MaxDistance == 200

SessionIds == {"s1", "s2"}

(***************************************************************************)
(* Texts.                                                                  *)
(***************************************************************************)
SeedText == <<"You", "are", "a", "helpful", "assistant">>
RevenueQuestion == <<"what", "was", "our", "revenue">>
StopQuestion == <<"what", "is", "the">>
AnswerText == <<"answer">>

ChunkNear == <<"Quarterly", "results">>
ChunkEdge == <<"Annual", "summary">>
ChunkFar == <<"Capital", "of", "France">>
ChunkKeyword == <<"Our", "Revenue">>

stop_words ==
    {"the", "a", "an", "and", "or", "but", "in", "on", "at", "to", "for", "of",
     "with", "is", "are", "was", "were", "what", "how", "when", "where", "why"}

\* str.lower() on one word
Lower(w) ==
    CASE w = "You" -> "you"
      [] w = "Quarterly" -> "quarterly"
      [] w = "Annual" -> "annual"
      [] w = "Capital" -> "capital"
      [] w = "France" -> "france"
      [] w = "Our" -> "our"
      [] w = "Revenue" -> "revenue"
      [] OTHER -> w

\* set(re.findall(r'\w+', text.lower()))
Tokens(text) == {Lower(text[i]) : i \in 1..Len(text)}

\* the embedding model: the same for chunks and for queries
Embed(text) ==
    CASE text = RevenueQuestion -> 0
      [] text = SeedText -> 1
      [] text = StopQuestion -> 130
      [] text = ChunkNear -> 59
      [] text = ChunkEdge -> 60
      [] text = ChunkFar -> 61
      [] text = ChunkKeyword -> 90
      [] OTHER -> 200

\* cosine distance of the collection ("hnsw:space": "cosine"), in hundredths
Distance(a, b) ==
    LET gap == IF a >= b THEN a - b ELSE b - a
    IN  IF gap > MaxDistance THEN MaxDistance ELSE gap

NoDistance == -1

(***************************************************************************)
(* Conversation                                                            *)
(***************************************************************************)
Seed == [role |-> "system", content |-> SeedText]

\* Conversation.__init__
Conversation == [messages |-> <<Seed>>, active |-> TRUE, document_ids |-> <<>>]

\* a lookup that constructs a new Conversation on every reference
get_or_create_conversation_fresh(convs, id) ==
    [c \in (DOMAIN convs) \cup {id} |-> IF c = id THEN Conversation ELSE convs[c]]

get_or_create_conversation(convs, id) ==
    IF id \in DOMAIN convs
    THEN convs
    ELSE [c \in (DOMAIN convs) \cup {id} |-> IF c = id THEN Conversation ELSE convs[c]]

SeqToSet(s) == {s[i] : i \in 1..Len(s)}

(***************************************************************************)
(* VectorStore: the collection is a set of chunk entries.                  *)
(***************************************************************************)
NoDoc == 0

\* the entries add_document builds for one document (ids, metadatas, documents)
ChunkEntries(doc_id, chunks, embeddings) ==
    {[doc_id |-> doc_id, chunk_index |-> i - 1, document |-> chunks[i],
      embedding |-> embeddings[i], total_chunks |-> Len(chunks)] : i \in 1..Len(chunks)}

\* collection.add raises after `written` of the entries were persisted
\* (written = Len(chunks) and raised = FALSE is the successful call)
add_document(st, doc_id, chunks, embeddings, written) ==
    st \cup {e \in ChunkEntries(doc_id, chunks, embeddings) : e.chunk_index < written}

\* e1 comes before e2 in the collection's nearest-neighbour order for q
Nearer(q, e1, e2) ==
    LET d1 == Distance(q, e1.embedding)
        d2 == Distance(q, e2.embedding)
    IN  \/ d1 < d2
        \/ d1 = d2 /\ e1.doc_id < e2.doc_id
        \/ d1 = d2 /\ e1.doc_id = e2.doc_id /\ e1.chunk_index < e2.chunk_index

RECURSIVE NearestFirst(_, _)
NearestFirst(q, entries) ==
    IF entries = {} THEN <<>>
    ELSE LET first == CHOOSE e \in entries : \A o \in entries \ {e} : Nearer(q, e, o)
         IN  <<first>> \o NearestFirst(q, entries \ {first})

FirstN(s, n) == SubSeq(s, 1, IF Len(s) < n THEN Len(s) ELSE n)

\* VectorStore.query: mode is what the collection does on this call
query(st, query_embedding, top_k, doc_id, mode) ==
    LET matching == IF doc_id # NoDoc THEN {e \in st : e.doc_id = doc_id} ELSE st
        ranked == FirstN(NearestFirst(query_embedding, matching), top_k)
        formatted ==
            [i \in 1..Len(ranked) |->
                [chunk |-> ranked[i].document,
                 metadata |-> [doc_id |-> ranked[i].doc_id,
                               chunk_index |-> ranked[i].chunk_index,
                               total_chunks |-> ranked[i].total_chunks],
                 distance |-> IF mode = "no_distances" THEN NoDistance
                              ELSE Distance(query_embedding, ranked[i].embedding)]]
    IN  IF mode = "raises"
        THEN [raised |-> TRUE, results |-> <<>>]
        ELSE [raised |-> FALSE, results |-> formatted]

Max(a, b) == IF a >= b THEN a ELSE b

query_keywords(query_text) == Tokens(query_text) \ stop_words

\* combined_score of one candidate, times 10 * MaxDistance * max(len(query_keywords), 1)
combined_score(result, keywords) ==
    LET n == Max(Cardinality(keywords), 1)
        keyword_overlap == Cardinality(keywords \cap Tokens(result.chunk))
        semantic == IF result.distance # NoDistance
                    THEN MaxDistance - result.distance
                    ELSE MaxDistance \div 2
    IN  SemanticWeight * semantic * n + KeywordWeight * MaxDistance * keyword_overlap

\* the sort without reverse=True
InsertByScoreAscending(sorted, x) ==
    LET k == Cardinality({i \in 1..Len(sorted) : sorted[i][1] <= x[1]})
    IN  SubSeq(sorted, 1, k) \o <<x>> \o SubSeq(sorted, k + 1, Len(sorted))

\* list.sort(key=score, reverse=True) is stable: equal scores keep their order
InsertByScore(sorted, x) ==
    LET k == Cardinality({i \in 1..Len(sorted) : sorted[i][1] >= x[1]})
    IN  SubSeq(sorted, 1, k) \o <<x>> \o SubSeq(sorted, k + 1, Len(sorted))

RECURSIVE SortByScore(_)
SortByScore(s) ==
    IF s = <<>> THEN <<>>
    ELSE InsertByScore(SortByScore(SubSeq(s, 1, Len(s) - 1)), s[Len(s)])

\* what goes wrong during one hybrid_query call: nothing, a collection that
\* answers without distances, a collection that raises, or the scoring raising
HybridFaults == {"none", "no_distances", "query", "rerank"}

StoreMode(fault) ==
    CASE fault = "query" -> "raises"
      [] fault = "no_distances" -> "no_distances"
      [] OTHER -> "ok"

RerankRaises(fault) == fault = "rerank"

\* a rerank that keeps the nearest-first order of the coarse pass
rerank_keeps_coarse_order(candidates, query_text, top_k) == FirstN(candidates, top_k)

\* lines 162-185: score, sort, cut
rerank(candidates, query_text, top_k) ==
    LET keywords == query_keywords(query_text)
        scored_results ==
            [i \in 1..Len(candidates) |->
                <<combined_score(candidates[i], keywords), candidates[i]>>]
        sorted == SortByScore(scored_results)
    IN  [i \in 1..Len(FirstN(sorted, top_k)) |-> sorted[i][2]]

\* a fallback that returns the candidates already fetched instead of querying again
hybrid_query_keeps_candidates(st, query_embedding, query_text, top_k, doc_id, fault) ==
    LET coarse == query(st, query_embedding, top_k * 2, doc_id, StoreMode(fault))
    IN  IF coarse.raised \/ coarse.results = <<>> \/ RerankRaises(fault)
        THEN coarse
        ELSE [raised |-> FALSE, results |-> rerank(coarse.results, query_text, top_k)]

\* VectorStore.hybrid_query
hybrid_query(st, query_embedding, query_text, top_k, doc_id, fault) ==
    LET coarse == query(st, query_embedding, top_k * 2, doc_id, StoreMode(fault))
        fallback == query(st, query_embedding, top_k, doc_id, StoreMode(fault))
    IN  IF coarse.raised THEN fallback
        ELSE IF coarse.results = <<>> THEN [raised |-> FALSE, results |-> <<>>]
        ELSE IF RerankRaises(fault) THEN fallback
        ELSE [raised |-> FALSE, results |-> rerank(coarse.results, query_text, top_k)]

\* a delete that removes only the document's first chunk
delete_document_first_chunk(st, doc_id) ==
    LET ids == {e \in st : e.doc_id = doc_id /\ e.chunk_index = 0}
    IN  [store |-> st \ ids, deleted |-> ids # {}]

\* VectorStore.delete_document: the collection after it, and what it returns
delete_document(st, doc_id) ==
    LET ids == {e \in st : e.doc_id = doc_id}
    IN  [store |-> st \ ids, deleted |-> ids # {}]

\* VectorStore.list_documents: the distinct document ids among the entries
list_documents(st) == {e.doc_id : e \in st}

(***************************************************************************)
(* PDFProcessor                                                            *)
(***************************************************************************)
PdfOne == <<ChunkFar>>
PdfTwo == <<ChunkEdge, ChunkKeyword>>
PdfKinds == {PdfOne, PdfTwo}

\* process_pdf: extract, chunk, embed; fault names the step that raises
process_pdf(pdf, fault) ==
    IF fault \in {"extract", "embed"}
    THEN [raised |-> TRUE, chunks |-> <<>>, embeddings |-> <<>>]
    ELSE [raised |-> FALSE, chunks |-> pdf,
          embeddings |-> [i \in 1..Len(pdf) |-> Embed(pdf[i])]]

(***************************************************************************)
(* Web search collaborators                                                *)
(***************************************************************************)
NoField == "None"
NoSnippet == -1
RewrittenQuery == <<"revenue", "2026">>

\* what one completion call does: it raises, answers without content, or answers a
\* text, which is a sequence of lines (str.splitlines), a line being a sequence of
\* tokens of which " " is whitespace
CompletionRaises == [kind |-> "raises", lines |-> <<>>]
CompletionNone == [kind |-> "none", lines |-> <<>>]
CompletionText(lines) == [kind |-> "text", lines |-> lines]

\* the completion outcomes a chat turn is tried with
RewriteOutcome(name) ==
    CASE name = "raises" -> CompletionRaises
      [] name = "blank" -> CompletionText(<<<<" ">>, RewrittenQuery>>)
      [] OTHER -> CompletionText(<<RewrittenQuery>>)

\* str.strip()
RECURSIVE LStrip(_)
LStrip(line) ==
    IF line # <<>> /\ Head(line) = " " THEN LStrip(Tail(line)) ELSE line

RECURSIVE RStrip(_)
RStrip(line) ==
    IF line # <<>> /\ line[Len(line)] = " "
    THEN RStrip(SubSeq(line, 1, Len(line) - 1)) ELSE line

Strip(line) == RStrip(LStrip(line))

\* a rewriter that returns the first line without checking that it is not empty
generate_search_query_via_groq_unchecked(user_message, outcome) ==
    IF outcome.kind # "text" \/ outcome.lines = <<>>
    THEN user_message
    ELSE Strip(outcome.lines[1])

\* generate_search_query_via_groq: outcome is what the completion call does
generate_search_query_via_groq(user_message, outcome) ==
    IF outcome.kind # "text"
    THEN user_message                      \* RuntimeError, or None.splitlines()
    ELSE IF outcome.lines = <<>>
    THEN user_message                      \* "".splitlines()[0] raises IndexError
    ELSE LET query_line == Strip(outcome.lines[1])
         IN  IF query_line = <<>> THEN user_message ELSE query_line

Item(title, snippet, link) == [title |-> title, snippet |-> snippet, link |-> link]

ProviderItems(outcome) ==
    CASE outcome = "empty" -> <<>>
      [] outcome = "plain" -> <<Item("t1", 150, "page")>>
      [] outcome = "no_snippet" -> <<Item("t1", NoSnippet, "page")>>
      [] OTHER -> <<Item("t1", 250, "page"), Item("t2", 200, "dead"),
                    Item(NoField, 40, NoField), Item("t4", 10, "page")>>

ProviderOutcomes == {"raises", "empty", "plain", "no_snippet", "many"}

\* google_search_snippets
google_search_snippets(search_query, num_results, outcome) ==
    IF outcome = "raises"
    THEN [raised |-> TRUE, results |-> <<>>]
    ELSE [raised |-> FALSE, results |-> FirstN(ProviderItems(outcome), num_results)]

\* extract_text_from_url never raises: a failed fetch is the empty text
extract_text_from_url(url) == IF url = "page" THEN "text" ELSE ""

enrich_search_results_with_extraction(snippets) ==
    [i \in 1..Len(snippets) |->
        [title |-> snippets[i].title,
         link |-> snippets[i].link,
         snippet |-> snippets[i].snippet,
         extracted_text |-> IF snippets[i].link # NoField
                            THEN extract_text_from_url(snippets[i].link)
                            ELSE ""]]

Min(a, b) == IF a <= b THEN a ELSE b

(***************************************************************************)
(* build_refinement_messages: the prompt, as its system variant, the       *)
(* history it carries, the question and the context blocks appended.       *)
(* rag_context / search_results of None are the empty sequence.            *)
(***************************************************************************)
rag_block(rag_context) ==
    [kind |-> "rag", items |-> [i \in 1..Len(rag_context) |-> rag_context[i].chunk]]

\* a block that lists every result with its whole snippet
search_block_unbounded(search_results) ==
    [kind |-> "search",
     items |-> [i \in 1..Len(search_results) |->
                   [title |-> search_results[i].title,
                    snippet |-> search_results[i].snippet]]]

search_block(search_results) ==
    LET shown == FirstN(search_results, SearchBlockLimit)
    IN  [kind |-> "search",
         items |-> [i \in 1..Len(shown) |->
                       [title |-> shown[i].title,
                        snippet |-> Min(shown[i].snippet, SnippetLimit)]]]

\* r.get('snippet', '')[:200] raises on a snippet of None
search_block_raises(search_results) ==
    \E i \in 1..Len(FirstN(search_results, SearchBlockLimit)) :
        search_results[i].snippet = NoSnippet

\* an assembler that attaches the search block only when there is no document block
build_refinement_messages_one_source(conversation, user_message, search_results, rag_context) ==
    [raised |-> search_results # <<>> /\ search_block_raises(search_results),
     system |-> IF search_results # <<>> THEN "search"
                ELSE IF rag_context # <<>> THEN "rag" ELSE "knowledge",
     history |-> Tail(conversation.messages),
     question |-> user_message,
     blocks |-> IF rag_context # <<>> THEN <<rag_block(rag_context)>>
                ELSE IF search_results # <<>> THEN <<search_block(search_results)>>
                ELSE <<>>]

build_refinement_messages(conversation, user_message, search_results, rag_context) ==
    [raised |-> search_results # <<>> /\ search_block_raises(search_results),
     system |-> IF search_results # <<>> THEN "search"
                ELSE IF rag_context # <<>> THEN "rag" ELSE "knowledge",
     history |-> Tail(conversation.messages),
     question |-> user_message,
     blocks |-> (IF rag_context # <<>> THEN <<rag_block(rag_context)>> ELSE <<>>)
                \o (IF search_results # <<>> THEN <<search_block(search_results)>> ELSE <<>>)]

(***************************************************************************)
(* State.  conversations: the module-level dict; store: the collection;    *)
(* files: the document ids with a file in UPLOAD_DIR; next_doc: the next   *)
(* fresh uuid; last: the last request handled and what it returned;        *)
(* hq: the last direct VectorStore call and what it returned.              *)
(***************************************************************************)
\* the chat-specific part of a response record
NoTurn ==
    [use_web_search |-> FALSE, had_documents |-> FALSE, rag_raised |-> FALSE,
     rag_results |-> <<>>, rag_context |-> <<>>, search_raised |-> FALSE,
     n_search_results |-> 0, system |-> "none", blocks |-> <<>>,
     prompt_raised |-> FALSE, completion_failed |-> FALSE, used_rag |-> FALSE,
     used_search |-> FALSE, calls |-> {}, role |-> "none", message |-> <<>>,
     provider |-> "none", search_items |-> <<>>]

Response(op, conversation_id, status, doc_id, created, fault, turn) ==
    [op |-> op, conversation_id |-> conversation_id, status |-> status,
     doc_id |-> doc_id, created |-> created, fault |-> fault, turn |-> turn]

NoLast == Response("none", "none", "none", NoDoc, FALSE, "none", NoTurn)

NoCall ==
    [op |-> "none", doc_id |-> NoDoc, top_k |-> 0, query_text |-> <<>>,
     fault |-> "none", raised |-> FALSE, results |-> <<>>, deleted |-> FALSE,
     before |-> {}]

Init ==
    /\ conversations = [id \in {} |-> Conversation]
    /\ store = {}
    /\ files = {}
    /\ next_doc = 1
    /\ last = NoLast
    /\ hq = NoCall

RECURSIVE SumAppended(_, _)
SumAppended(convs, ids) ==
    IF ids = {} THEN 0
    ELSE LET id == CHOOSE x \in ids : TRUE
         IN  (Len(convs[id].messages) - 1) + SumAppended(convs, ids \ {id})

\* messages appended so far, over all sessions
Appended(convs) == SumAppended(convs, DOMAIN convs)

(***************************************************************************)
(* chat                                                                    *)
(***************************************************************************)
RagFaults == {"none", "embed", "query", "no_distances"}

\* a gate that rejects the threshold itself
relevance_gate_strict(top_distance) == top_distance < RelevanceThreshold

\* line 371
relevance_gate(top_distance) == top_distance <= RelevanceThreshold

\* lines 352-381: the retrieval and the relevance gate
rag_step(document_ids, message, fault) ==
    IF document_ids = <<>>
    THEN [raised |-> FALSE, results |-> <<>>, context |-> <<>>, calls |-> {}]
    ELSE IF fault = "embed"
    THEN [raised |-> TRUE, results |-> <<>>, context |-> <<>>, calls |-> {"embed"}]
    ELSE LET rag == hybrid_query(store, Embed(message), message, ChatTopK, NoDoc, fault)
             calls == {"embed", "query"}
         IN  IF rag.raised
             THEN [raised |-> TRUE, results |-> <<>>, context |-> <<>>, calls |-> calls]
             ELSE IF rag.results = <<>>
             THEN [raised |-> FALSE, results |-> <<>>, context |-> <<>>, calls |-> calls]
             ELSE IF rag.results[1].distance = NoDistance
             THEN \* None <= 0.6 raises TypeError, caught at line 378
                  [raised |-> TRUE, results |-> rag.results, context |-> <<>>,
                   calls |-> calls]
             ELSE [raised |-> FALSE, results |-> rag.results,
                   context |-> IF relevance_gate(rag.results[1].distance)
                               THEN rag.results ELSE <<>>,
                   calls |-> calls]

\* a search that runs on every turn, whatever the flag
search_step_every_turn(use_web_search, message, rewrite, provider) ==
    LET search_query == generate_search_query_via_groq(message, rewrite)
        snippets == google_search_snippets(search_query, NumResults, provider)
    IN  [raised |-> snippets.raised,
         results |-> enrich_search_results_with_extraction(snippets.results),
         calls |-> {"rewrite", "search"},
         query |-> search_query]

\* lines 383-408: the opt-in web search
search_step(use_web_search, message, rewrite, provider) ==
    IF ~use_web_search
    THEN [raised |-> FALSE, results |-> <<>>, calls |-> {}, query |-> <<>>]
    ELSE LET search_query == generate_search_query_via_groq(message, rewrite)
             snippets == google_search_snippets(search_query, NumResults, provider)
         IN  IF snippets.raised
             THEN [raised |-> TRUE, results |-> <<>>, calls |-> {"rewrite", "search"},
                   query |-> search_query]
             ELSE [raised |-> FALSE,
                   results |-> enrich_search_results_with_extraction(snippets.results),
                   calls |-> {"rewrite", "search"}
                             \cup IF \E i \in 1..Len(snippets.results) :
                                        snippets.results[i].link # NoField
                                  THEN {"extract"} ELSE {},
                   query |-> search_query]

ChatInputs == {<<"user", RevenueQuestion>>, <<"system", SeedText>>}
\* the rewrite and the provider of one turn: what each of the two calls does
SearchOutcomes ==
    {<<"line", "raises">>, <<"line", "empty">>, <<"line", "no_snippet">>,
     <<"line", "many">>, <<"raises", "many">>, <<"blank", "many">>}

\* what the collaborators of one turn do, as <<use_web_search, rewrite, provider,
\* completion succeeds>>: every search outcome with a completion that succeeds, and
\* a completion that fails without a search and after a search with results
TurnCases ==
    {<<FALSE, "line", "empty", ok>> : ok \in BOOLEAN}
    \cup {<<TRUE, search[1], search[2], TRUE>> : search \in SearchOutcomes}
    \cup {<<TRUE, "line", "many", FALSE>>}

\* the turns a failing retrieval is tried with
FaultCases == {<<FALSE, "line", "empty", TRUE>>, <<TRUE, "line", "many", TRUE>>}

\* line 343
\* a handler that skips the active check
session_ended_never(conversation) == FALSE

session_ended(conversation) == ~conversation.active

\* rag is the outcome of lines 352-381 for this turn: rag_step on the session's
\* document ids, the message and rag_fault
\* a handler that takes the user message back when no answer was produced
append_response_or_roll_back(conversation, answered) ==
    IF answered
    THEN [conversation EXCEPT
             !.messages = Append(@, [role |-> "assistant", content |-> AnswerText])]
    ELSE [conversation EXCEPT !.messages = SubSeq(@, 1, Len(@) - 1)]

\* lines 422-426: the answer is appended only once the completion call returned
append_response(conversation, answered) ==
    IF answered
    THEN [conversation EXCEPT
             !.messages = Append(@, [role |-> "assistant", content |-> AnswerText])]
    ELSE conversation

Chat(id, role, message, use_web_search, rag_fault, rag, rewrite, provider, completion_ok) ==
    LET convs == get_or_create_conversation(conversations, id)
        conversation == convs[id]
        created == id \notin DOMAIN conversations
    IN  IF session_ended(conversation)
        THEN /\ conversations' = convs
             /\ last' = Response("chat", id, "400", NoDoc, created, "none",
                                 [NoTurn EXCEPT !.use_web_search = use_web_search])
             /\ UNCHANGED <<store, files, next_doc, hq>>
        ELSE LET asked == [conversation EXCEPT
                              !.messages = Append(@, [role |-> role, content |-> message])]
                 search == search_step(use_web_search, message, RewriteOutcome(rewrite), provider)
                 prompt == build_refinement_messages(asked, message, search.results,
                                                     rag.context)
                 answered == ~prompt.raised /\ completion_ok
                 final == append_response(asked, answered)
             IN  /\ prompt.raised => completion_ok
                 /\ conversations' = [convs EXCEPT ![id] = final]
                 /\ last' = Response("chat", id, IF answered THEN "ok" ELSE "500",
                        NoDoc, created, "none",
                        [use_web_search |-> use_web_search,
                         had_documents |-> asked.document_ids # <<>>,
                         rag_raised |-> rag.raised,
                         rag_results |-> rag.results,
                         rag_context |-> rag.context,
                         search_raised |-> search.raised,
                         n_search_results |-> Len(search.results),
                         system |-> IF prompt.raised THEN "none" ELSE prompt.system,
                         blocks |-> IF prompt.raised THEN <<>>
                                    ELSE [i \in 1..Len(prompt.blocks) |->
                                             prompt.blocks[i].kind],
                         prompt_raised |-> prompt.raised,
                         completion_failed |-> ~prompt.raised /\ ~completion_ok,
                         used_rag |-> answered /\ rag.context # <<>>,
                         used_search |-> answered /\ search.results # <<>>,
                         calls |-> rag.calls \cup search.calls
                                   \cup IF prompt.raised THEN {} ELSE {"complete"},
                         role |-> role,
                         message |-> message,
                         provider |-> IF use_web_search THEN provider ELSE "none",
                         search_items |->
                             IF prompt.raised \/ search.results = <<>> THEN <<>>
                             ELSE prompt.blocks[Len(prompt.blocks)].items])
                 /\ UNCHANGED <<store, files, next_doc, hq>>

DocumentIds(id) ==
    IF id \in DOMAIN conversations THEN conversations[id].document_ids ELSE <<>>

IsOpen(id) == id \in DOMAIN conversations => conversations[id].active

ChatRequest ==
    \E id \in SessionIds, input \in ChatInputs :
      IF IsOpen(id)
      THEN /\ Appended(conversations) + 2 <= MaxMsgs
           /\ \E rag_fault \in IF DocumentIds(id) # <<>> THEN RagFaults ELSE {"none"} :
                LET rag == rag_step(DocumentIds(id), input[2], rag_fault)
                IN  \E case \in IF rag_fault = "none" THEN TurnCases ELSE FaultCases :
                        Chat(id, input[1], input[2], case[1], rag_fault, rag,
                             case[2], case[3], case[4])
      ELSE \E use_web_search \in BOOLEAN :
             Chat(id, input[1], input[2], use_web_search, "none",
                  rag_step(<<>>, input[2], "none"), "line", "empty", TRUE)

(***************************************************************************)
(* upload_pdf                                                              *)
(***************************************************************************)
BytesPerMB == 1048576
MaxBytes == MaxFileSizeMB * BytesPerMB
FileSizes == {MaxBytes, MaxBytes + 1}
UploadFaults == {"none", "extract", "embed", "store"}

\* a size check that also rejects a file of exactly the maximum size
upload_rejected_at_limit(filename_ok, size) ==
    ~filename_ok \/ size >= MaxFileSizeMB * BytesPerMB

\* lines 448-459: the file type check, then the size check
upload_rejected(filename_ok, size) ==
    ~filename_ok \/ size > MaxFileSizeMB * BytesPerMB

\* what upload_pdf answers, with the request it answers
UploadResponse(id, status, doc_id, created, fault, filename_ok, size) ==
    Response("upload", id, status, doc_id, created, fault, NoTurn)
    @@ [filename_ok |-> filename_ok, size |-> size]

Upload(id, filename_ok, size, pdf, fault, written) ==
    LET rejected == upload_rejected(filename_ok, size)
        doc_id == next_doc
        result == process_pdf(pdf, fault)
        convs == get_or_create_conversation(conversations, id)
    IN  IF rejected
        THEN /\ ~filename_ok => size = MaxBytes
             /\ fault = "none" /\ written = 0 /\ pdf = PdfOne
             /\ last' = UploadResponse(id, "400", NoDoc, FALSE, fault, filename_ok, size)
             /\ UNCHANGED <<conversations, store, files, next_doc, hq>>
        ELSE /\ next_doc' = IF fault = "none" \/ (fault = "store" /\ written > 0)
                            THEN next_doc + 1 ELSE next_doc
             /\ UNCHANGED hq
             /\ fault # "store" => written = 0
             /\ CASE fault \in {"extract", "embed"} ->
                       /\ files' = (files \cup {doc_id}) \ {doc_id}
                       /\ last' = UploadResponse(id, "500", doc_id, FALSE, fault, filename_ok, size)
                       /\ UNCHANGED <<conversations, store>>
                  [] fault = "store" ->
                       /\ store' = add_document(store, doc_id, result.chunks,
                                                result.embeddings, written)
                       /\ files' = (files \cup {doc_id}) \ {doc_id}
                       /\ last' = UploadResponse(id, "500", doc_id, FALSE, fault, filename_ok, size)
                       /\ UNCHANGED conversations
                  [] OTHER ->
                       /\ store' = add_document(store, doc_id, result.chunks,
                                                result.embeddings, Len(result.chunks))
                       /\ files' = files \cup {doc_id}
                       /\ conversations' =
                              [convs EXCEPT ![id].document_ids =
                                  IF doc_id \in SeqToSet(@) THEN @ ELSE Append(@, doc_id)]
                       /\ last' = UploadResponse(id, "ok", doc_id,
                                                 id \notin DOMAIN conversations, fault,
                                                 filename_ok, size)

UploadRequest ==
    \E id \in SessionIds, filename_ok \in BOOLEAN, size \in FileSizes :
      \E pdf \in PdfKinds, fault \in UploadFaults :
        \E written \in IF fault = "store" THEN 0..1 ELSE {0} :
          /\ upload_rejected(filename_ok, size) \/ next_doc <= MaxDocs
          /\ Upload(id, filename_ok, size, pdf, fault, written)

(***************************************************************************)
(* delete_document (the endpoint)                                          *)
(***************************************************************************)
RemoveFirst(s, x) ==
    LET i == CHOOSE k \in 1..Len(s) : s[k] = x /\ \A j \in 1..(k - 1) : s[j] # x
    IN  SubSeq(s, 1, i - 1) \o SubSeq(s, i + 1, Len(s))

\* a delete that removes the id from every session's list
DeleteFromEverySession(doc_id, conversation_id) ==
    LET removed == delete_document(store, doc_id)
    IN  /\ removed.deleted
        /\ store' = removed.store
        /\ files' = files \ {doc_id}
        /\ conversations' =
               [id \in DOMAIN conversations |->
                   IF doc_id \in SeqToSet(conversations[id].document_ids)
                   THEN [conversations[id] EXCEPT !.document_ids = RemoveFirst(@, doc_id)]
                   ELSE conversations[id]]
        /\ last' = Response("delete", conversation_id, "ok", doc_id, FALSE, "none", NoTurn)
        /\ UNCHANGED <<next_doc, hq>>

Delete(doc_id, conversation_id) ==
    LET removed == delete_document(store, doc_id)
    IN  IF ~removed.deleted
        THEN /\ last' = Response("delete", conversation_id, "404", doc_id, FALSE, "none",
                                 NoTurn)
             /\ UNCHANGED <<conversations, store, files, next_doc, hq>>
        ELSE /\ store' = removed.store
             /\ files' = files \ {doc_id}
             /\ conversations' =
                    IF conversation_id # "none" /\ conversation_id \in DOMAIN conversations
                       /\ doc_id \in SeqToSet(conversations[conversation_id].document_ids)
                    THEN [conversations EXCEPT ![conversation_id].document_ids =
                             RemoveFirst(@, doc_id)]
                    ELSE conversations
             /\ last' = Response("delete", conversation_id, "ok", doc_id, FALSE, "none",
                                 NoTurn)
             /\ UNCHANGED <<next_doc, hq>>

DeleteRequest ==
    \E doc_id \in 1..MaxDocs, conversation_id \in SessionIds \cup {"none"} :
        Delete(doc_id, conversation_id)

Next == ChatRequest \/ UploadRequest \/ DeleteRequest

Spec == Init /\ [][Next]_vars

(***************************************************************************)
(* Session close.  Conversation.active (app.py 65) is read by chat but no  *)
(* handler of the repository assigns it; the OPEN -> CLOSED transition is  *)
(* the one the design describes.                                           *)
(***************************************************************************)
CloseSession(id) ==
    /\ id \in DOMAIN conversations
    /\ conversations[id].active
    /\ conversations' = [conversations EXCEPT ![id].active = FALSE]
    /\ last' = Response("close", id, "ok", NoDoc, FALSE, "none", NoTurn)
    /\ UNCHANGED <<store, files, next_doc, hq>>

CloseRequest == \E id \in SessionIds : CloseSession(id)

NextLifecycle == ChatRequest \/ UploadRequest \/ CloseRequest

SpecLifecycle == Init /\ [][NextLifecycle]_vars

(***************************************************************************)
(* The VectorStore methods called directly, with every argument free.      *)
(***************************************************************************)
QueryTexts == {RevenueQuestion, SeedText, StopQuestion}

Call(op, doc_id, top_k, query_text, fault, raised, results, deleted, before) ==
    [op |-> op, doc_id |-> doc_id, top_k |-> top_k, query_text |-> query_text,
     fault |-> fault, raised |-> raised, results |-> results, deleted |-> deleted,
     before |-> before]

StoreAdd(doc_id, pdf, written) ==
    LET result == process_pdf(pdf, "none")
    IN  /\ doc_id \notin list_documents(store)
        /\ store' = add_document(store, doc_id, result.chunks, result.embeddings, written)
        /\ hq' = Call("add", doc_id, 0, <<>>, "none", written < Len(pdf), <<>>, FALSE, store)
        /\ UNCHANGED <<conversations, files, next_doc, last>>

StoreDelete(doc_id) ==
    LET removed == delete_document(store, doc_id)
    IN  /\ store' = removed.store
        /\ hq' = Call("delete", doc_id, 0, <<>>, "none", FALSE, <<>>, removed.deleted, store)
        /\ UNCHANGED <<conversations, files, next_doc, last>>

StoreHybridQuery(query_text, top_k, doc_id, fault) ==
    LET found == hybrid_query(store, Embed(query_text), query_text, top_k, doc_id, fault)
    IN  /\ hq' = Call("hybrid_query", doc_id, top_k, query_text, fault, found.raised,
                      found.results, FALSE, store)
        /\ UNCHANGED <<conversations, store, files, next_doc, last>>

StoreAddCall ==
    \E doc_id \in 1..MaxStoreDocs, pdf \in PdfKinds :
      \E written \in 1..Len(pdf) : StoreAdd(doc_id, pdf, written)

StoreDeleteCall == \E doc_id \in 1..MaxStoreDocs : StoreDelete(doc_id)

StoreHybridQueryCall ==
    \E query_text \in QueryTexts, top_k \in 1..MaxTopK, doc_id \in 0..MaxStoreDocs,
       fault \in HybridFaults :
        StoreHybridQuery(query_text, top_k, doc_id, fault)

NextStore == StoreAddCall \/ StoreDeleteCall \/ StoreHybridQueryCall

SpecStore == Init /\ [][NextStore]_vars

(***************************************************************************)
(* list_documents (the endpoint): the ids of the documents it returns.     *)
(***************************************************************************)
listed_documents(convs, st, conversation_id) ==
    IF conversation_id # "none" /\ conversation_id \in DOMAIN convs
    THEN {d \in list_documents(st) : d \in SeqToSet(convs[conversation_id].document_ids)}
    ELSE list_documents(st)

ListDocuments(conversation_id) ==
    /\ last' = Response("list", conversation_id, "ok", NoDoc, FALSE, "none", NoTurn)
               @@ [documents |-> listed_documents(conversations, store, conversation_id)]
    /\ UNCHANGED <<conversations, store, files, next_doc, hq>>

ListRequest == \E conversation_id \in SessionIds \cup {"none"} : ListDocuments(conversation_id)

NextListing == UploadRequest \/ DeleteRequest \/ ListRequest

SpecListing == Init /\ [][NextListing]_vars

(***************************************************************************)
(* generate_search_query_via_groq called directly, with the user message   *)
(* and the completion output free.                                         *)
(***************************************************************************)
MaxLineLen == 3

LineTokens == {" ", "revenue", "2026"}

Lines == UNION {[1..n -> LineTokens] : n \in 0..MaxLineLen}

CompletionOutcomes ==
    {CompletionRaises, CompletionNone, CompletionText(<<>>)}
    \cup {CompletionText(<<first>>) : first \in Lines}
    \cup {CompletionText(<<first, <<"2026">>>>) : first \in Lines}

RewriteMessages == {<<>>, RevenueQuestion, StopQuestion}

\* lines 385-396 of chat: the rewrite and the provider call that follows it
Rewrite(user_message, outcome, provider) ==
    LET search == search_step(TRUE, user_message, outcome, provider)
    IN  /\ hq' = Call("rewrite", NoDoc, 0, user_message, outcome.kind, search.raised,
                      search.query, FALSE, {})
                 @@ [output |-> outcome.lines, calls |-> search.calls]
        /\ UNCHANGED <<conversations, store, files, next_doc, last>>

RewriteCall ==
    \E user_message \in RewriteMessages, outcome \in CompletionOutcomes :
      \E provider \in {"raises", "plain"} :
        Rewrite(user_message, outcome, provider)

NextRewrite == RewriteCall

SpecRewrite == Init /\ [][NextRewrite]_vars

(***************************************************************************)
(* Several documents in the one collection: uploads that succeed and plain *)
(* chat turns (no web search, no fault), for up to MaxSharedDocs documents.*)
(***************************************************************************)
MaxSharedDocs == 2

SharedUpload ==
    \E id \in SessionIds, pdf \in PdfKinds :
        /\ next_doc <= MaxSharedDocs
        /\ Upload(id, TRUE, MaxBytes, pdf, "none", 0)

SharedChat ==
    \E id \in SessionIds, input \in ChatInputs :
        /\ Appended(conversations) + 2 <= MaxMsgs
        /\ Chat(id, input[1], input[2], FALSE, "none",
                rag_step(DocumentIds(id), input[2], "none"), "line", "empty", TRUE)

NextShared == SharedUpload \/ SharedChat

SpecShared == Init /\ [][NextShared]_vars

(***************************************************************************)
(* Claims                                                                  *)
(***************************************************************************)
Turn == last.turn

ChatHandled == last.op = "chat" /\ last.status # "400"

HasBlock(kind) == \E i \in 1..Len(Turn.blocks) : Turn.blocks[i] = kind

TopDistance == Turn.rag_results[1].distance

C2_Accepted ==
    /\ Turn.had_documents
    /\ Turn.rag_results # <<>>
    /\ TopDistance # NoDistance
    /\ TopDistance <= 60

C2_RelevanceGate ==
    ChatHandled =>
        /\ (Turn.rag_context # <<>>) = C2_Accepted
        /\ C2_Accepted => Turn.rag_context = Turn.rag_results
        /\ Turn.rag_raised => Turn.rag_context = <<>>
        /\ last.status = "ok" => Turn.used_rag = C2_Accepted
        /\ (Turn.rag_results # <<>> /\ TopDistance \in {59, 60}) => Turn.rag_context # <<>>
        /\ (Turn.rag_results # <<>> /\ TopDistance = 61) => Turn.rag_context = <<>>

C2_AcceptAtThreshold ==
    /\ ChatHandled
    /\ Turn.rag_results # <<>>
    /\ TopDistance = 60
    /\ Turn.used_rag

IsPrefix(s, t) == Len(s) <= Len(t) /\ SubSeq(t, 1, Len(s)) = s

Messages(id) == conversations[id].messages

\* C3 (as stated): every session's message sequence only grows, starts with the seed
\* system instruction, and never holds the seed a second time.
C3_SeedNeverDuplicated ==
    [][/\ \A id \in DOMAIN conversations :
            /\ id \in DOMAIN conversations'
            /\ IsPrefix(Messages(id), Messages(id)')
       /\ \A id \in DOMAIN conversations' :
            /\ Head(Messages(id)') = Seed
            /\ \A i \in 2..Len(Messages(id)') : Messages(id)'[i] # Seed]_vars

\* C4: a chat turn against a CLOSED session is rejected with an explicit error and
\* changes nothing (messages, document ids, store, files; no retrieval, search or
\* completion call), and no step sets a CLOSED session back to OPEN.
Closed(id) == id \in DOMAIN conversations /\ ~conversations[id].active

C4_ClosedRejects ==
    [][\A id \in SessionIds :
          Closed(id) =>
             /\ id \in DOMAIN conversations'
             /\ ~conversations'[id].active
             /\ (last'.op = "chat" /\ last'.conversation_id = id) =>
                    /\ last'.status = "400"
                    /\ last'.turn.calls = {}
                    /\ conversations' = conversations
                    /\ store' = store
                    /\ files' = files]_vars

C4_RejectedTurn ==
    /\ last.op = "chat"
    /\ last.status = "400"
    /\ Closed(last.conversation_id)
    /\ Len(Messages(last.conversation_id)) > 1
    /\ conversations[last.conversation_id].document_ids # <<>>

\* C5: the first reference to an unseen session id (a chat turn or a successful
\* upload) creates an OPEN session with no document ids whose messages are exactly
\* the seed, to which the creating request then adds only its own message(s) or
\* document id; a later reference finds the same session: its messages stay a prefix,
\* its flag stays, and its document ids change only by the request's own upload or delete.
CreatedBy(id) ==
    /\ last'.conversation_id = id
    /\ conversations'[id].active
    /\ Head(Messages(id)') = Seed
    /\ \/ /\ last'.op = "chat"
          /\ Len(Messages(id)') \in {2, 3}
          /\ Messages(id)'[2] # [role |-> "assistant", content |-> AnswerText]
          /\ Len(Messages(id)') = 3 =>
                 Messages(id)'[3] = [role |-> "assistant", content |-> AnswerText]
          /\ conversations'[id].document_ids = <<>>
       \/ /\ last'.op = "upload"
          /\ last'.status = "ok"
          /\ Messages(id)' = <<Seed>>
          /\ conversations'[id].document_ids = <<last'.doc_id>>

SameSession(id) ==
    /\ id \in DOMAIN conversations'
    /\ IsPrefix(Messages(id), Messages(id)')
    /\ conversations'[id].active = conversations[id].active
    /\ last'.op = "chat" =>
           conversations'[id].document_ids = conversations[id].document_ids
    /\ last'.op = "upload" =>
           IsPrefix(conversations[id].document_ids, conversations'[id].document_ids)
    /\ last'.conversation_id # id => conversations'[id] = conversations[id]

C5_CreateOnFirstReference ==
    [][\A id \in SessionIds :
          /\ (id \notin DOMAIN conversations /\ id \in DOMAIN conversations') =>
                 CreatedBy(id)
          /\ id \in DOMAIN conversations => SameSession(id)]_vars

C5_LaterReference ==
    /\ last.op = "chat"
    /\ last.status = "ok"
    /\ ~last.created
    /\ Messages(last.conversation_id)[1] = Seed
    /\ Len(Messages(last.conversation_id)) = 3
    /\ conversations[last.conversation_id].document_ids # <<>>

\* C6: whenever an upload ends in failure, the store holds no chunk of that document,
\* its file is gone from disk and no session lists its id.
C6_IngestionAtomic ==
    (last.op = "upload" /\ last.status = "500") =>
        /\ \A e \in store : e.doc_id # last.doc_id
        /\ last.doc_id \notin files
        /\ \A id \in DOMAIN conversations :
               last.doc_id \notin SeqToSet(conversations[id].document_ids)

\* C7: delete(doc_id) removes every chunk of doc_id and no chunk of another document;
\* afterwards a query restricted to doc_id is empty and list_documents omits it; it
\* returns true iff a chunk was removed, so a second delete returns false and changes
\* nothing.
C7_DeleteRemovesDocument ==
    hq.op = "delete" =>
        /\ store = {e \in hq.before : e.doc_id # hq.doc_id}
        /\ \A text \in QueryTexts, top_k \in 1..MaxTopK :
               query(store, Embed(text), top_k, hq.doc_id, "ok").results = <<>>
        /\ hq.doc_id \notin list_documents(store)
        /\ hq.deleted = (\E e \in hq.before : e.doc_id = hq.doc_id)
        /\ delete_document(store, hq.doc_id) = [store |-> store, deleted |-> FALSE]

C7_DeletedAmongOthers ==
    /\ hq.op = "delete"
    /\ hq.deleted
    /\ Cardinality({e \in hq.before : e.doc_id = hq.doc_id}) = 2
    /\ store # {}

\* C8: a chat turn on an OPEN session fails with an error only when the completion
\* call itself fails; no failure or malformed output of embedding, retrieval, query
\* rewriting, the search provider or page extraction fails the turn.
C8_OnlyCompletionFails ==
    (ChatHandled /\ last.status = "500") => Turn.completion_failed

\* C9: when scoring does not fail, hybrid_query returns at most top_k results, each
\* one of the 2*top_k coarse candidates and none twice, in descending order of
\* 0.7*(1 - distance/2) + 0.3*(overlap / max(|query_keywords|, 1)), the semantic
\* term being 0.5 when the distance is unavailable.
Candidates ==
    query(hq.before, Embed(hq.query_text), 2 * hq.top_k, hq.doc_id,
          StoreMode(hq.fault)).results

\* the claimed score, times 2000 * max(|query_keywords|, 1)
ClaimedScore(result) ==
    LET keywords == Tokens(hq.query_text) \ stop_words
        n == IF keywords = {} THEN 1 ELSE Cardinality(keywords)
        overlap == Cardinality({w \in keywords : w \in Tokens(result.chunk)})
    IN  (IF result.distance = NoDistance THEN 7 * 100 * n
         ELSE 7 * (200 - result.distance) * n) + 3 * 200 * overlap

Reranked == hq.op = "hybrid_query" /\ hq.fault \in {"none", "no_distances"}

C9_HybridRanking ==
    Reranked =>
        /\ ~hq.raised
        /\ Len(hq.results) <= hq.top_k
        /\ Len(Candidates) <= 2 * hq.top_k
        /\ \A i \in 1..Len(hq.results) :
               \E j \in 1..Len(Candidates) : hq.results[i] = Candidates[j]
        /\ \A i, j \in 1..Len(hq.results) : i < j => hq.results[i] # hq.results[j]
        /\ \A i, j \in 1..Len(hq.results) :
               i < j => ClaimedScore(hq.results[i]) >= ClaimedScore(hq.results[j])

C9_KeywordBeatsDistance ==
    /\ Reranked
    /\ hq.fault = "none"
    /\ Len(hq.results) = 2
    /\ hq.results[1].distance > hq.results[2].distance
    /\ Tokens(hq.query_text) \ stop_words \subseteq Tokens(hq.results[1].chunk)
    /\ (Tokens(hq.query_text) \ stop_words) \cap Tokens(hq.results[2].chunk) = {}
    /\ ClaimedScore(hq.results[1]) > ClaimedScore(hq.results[2])

\* C10: when the scoring inside hybrid_query fails, hybrid_query does not fail and
\* returns what query returns for top_k: the top_k nearest chunks in ascending
\* distance order.
Matching == IF hq.doc_id # NoDoc THEN {e \in hq.before : e.doc_id = hq.doc_id}
            ELSE hq.before

C10_RerankFallback ==
    (hq.op = "hybrid_query" /\ hq.fault = "rerank") =>
        /\ ~hq.raised
        /\ hq.results =
               query(hq.before, Embed(hq.query_text), hq.top_k, hq.doc_id, "ok").results
        /\ Len(hq.results) = Min(hq.top_k, Cardinality(Matching))
        /\ \A i, j \in 1..Len(hq.results) :
               i < j => hq.results[i].distance <= hq.results[j].distance
        /\ \A i \in 1..Len(hq.results), e \in Matching :
               \/ \E j \in 1..Len(hq.results) :
                     /\ hq.results[j].metadata.doc_id = e.doc_id
                     /\ hq.results[j].metadata.chunk_index = e.chunk_index
               \/ hq.results[i].distance <= Distance(Embed(hq.query_text), e.embedding)

C10_FallbackDiffersFromRerank ==
    /\ hq.op = "hybrid_query"
    /\ hq.fault = "rerank"
    /\ Len(hq.results) = 2
    /\ hq.results # rerank(Candidates, hq.query_text, hq.top_k)

\* C11: a listing scoped by a session id, whether or not that session exists, never
\* returns a document that is attached only to a different session.
AttachedTo(id) ==
    IF id \in DOMAIN conversations THEN SeqToSet(conversations[id].document_ids) ELSE {}

C11_ListingScoped ==
    (last.op = "list" /\ last.conversation_id # "none") =>
        \A d \in last.documents :
            (\E other \in SessionIds \ {last.conversation_id} : d \in AttachedTo(other))
                => d \in AttachedTo(last.conversation_id)

\* C12: a chat turn, an upload or a scoped deletion addressed to one session id leaves
\* the messages, the active flag and the document id list of every other session
\* unchanged.
C12_SessionIsolation ==
    [][\A other \in DOMAIN conversations :
          other # last'.conversation_id =>
              /\ other \in DOMAIN conversations'
              /\ conversations'[other].messages = conversations[other].messages
              /\ conversations'[other].active = conversations[other].active
              /\ conversations'[other].document_ids = conversations[other].document_ids]_vars

C12_DeleteScopedElsewhere ==
    /\ last.op = "delete"
    /\ last.status = "ok"
    /\ last.conversation_id \in SessionIds
    /\ \E other \in DOMAIN conversations :
          /\ other # last.conversation_id
          /\ last.doc_id \in SeqToSet(conversations[other].document_ids)
          /\ Len(conversations[other].messages) > 1

\* C13 (as stated): generate_search_query_via_groq never returns an empty query: it
\* returns the user message when the completion call fails or its output is missing,
\* empty or has a blank first line, and the stripped first line otherwise, and the
\* provider call is issued in every case.
BlankLine(line) == \A i \in 1..Len(line) : line[i] = " "

FallsBack ==
    \/ hq.fault # "text"
    \/ hq.output = <<>>
    \/ BlankLine(hq.output[1])

C13_NeverEmptyQuery ==
    hq.op = "rewrite" =>
        /\ hq.results # <<>>
        /\ FallsBack => hq.results = hq.query_text
        /\ "search" \in hq.calls

\* C13 (amended): generate_search_query_via_groq returns the user message verbatim
\* when the completion call fails or its output is missing, empty or has a blank
\* first line, and otherwise the first line without its leading and trailing
\* whitespace, which is not empty; so the query is empty only when the user message
\* itself is empty and the rewrite fell back; the provider call is issued in every case.
C13_RewriteFallback ==
    hq.op = "rewrite" =>
        /\ "search" \in hq.calls
        /\ FallsBack => hq.results = hq.query_text
        /\ ~FallsBack =>
              /\ hq.results # <<>>
              /\ hq.results[1] # " " /\ hq.results[Len(hq.results)] # " "
              /\ \E a, b \in 1..Len(hq.output[1]) :
                    /\ hq.results = SubSeq(hq.output[1], a, b)
                    /\ BlankLine(SubSeq(hq.output[1], 1, a - 1))
                    /\ BlankLine(SubSeq(hq.output[1], b + 1, Len(hq.output[1])))
        /\ hq.results = <<>> => (hq.query_text = <<>> /\ FallsBack)

C13_BlankFirstLine ==
    /\ hq.op = "rewrite"
    /\ hq.fault = "text"
    /\ Len(hq.output) = 2
    /\ hq.output[1] # <<>>
    /\ BlankLine(hq.output[1])
    /\ hq.query_text # <<>>
    /\ hq.results = hq.query_text

\* C14: the query rewriter, the search provider and the page extractor are invoked
\* only on a turn whose use_web_search flag is true, and used_search is true only if
\* the flag was true and the provider returned at least one result on that turn.
SearchCalls == {"rewrite", "search", "extract"}

C14_SearchOptIn ==
    last.op = "chat" =>
        /\ ~Turn.use_web_search =>
              /\ Turn.calls \cap SearchCalls = {}
              /\ Turn.n_search_results = 0
              /\ ~HasBlock("search")
        /\ Turn.used_search => (Turn.use_web_search /\ Turn.n_search_results > 0)

C14_AnsweredWithoutSearch ==
    /\ last.op = "chat"
    /\ last.status = "ok"
    /\ ~Turn.use_web_search
    /\ {"query", "complete"} \subseteq Turn.calls
    /\ Turn.used_rag

\* C15: a web-search block lists at most the first 3 search results in provider
\* order, each as its title and its snippet cut to at most 200 characters, however
\* many results the provider returned; with neither document context nor search
\* results no context block is appended.
Provided == ProviderItems(Turn.provider)

C15_SearchBlockBounded ==
    (ChatHandled /\ ~Turn.prompt_raised) =>
        /\ HasBlock("search") =>
              /\ Len(Turn.search_items) <= 3
              /\ Len(Turn.search_items) = (IF Len(Provided) < 3 THEN Len(Provided) ELSE 3)
              /\ \A i \in 1..Len(Turn.search_items) :
                    /\ Turn.search_items[i].title = Provided[i].title
                    /\ Turn.search_items[i].snippet <= 200
                    /\ Turn.search_items[i].snippet =
                           (IF Provided[i].snippet > 200 THEN 200 ELSE Provided[i].snippet)
        /\ ~HasBlock("search") => Turn.search_items = <<>>
        /\ (Turn.rag_context = <<>> /\ Turn.n_search_results = 0) => Turn.blocks = <<>>

C15_FourResultsLongSnippet ==
    /\ ChatHandled
    /\ HasBlock("search")
    /\ Len(Provided) = 4
    /\ Provided[1].snippet > 200
    /\ Len(Turn.search_items) = 3
    /\ Turn.search_items[1].snippet = 200

\* C16: an upload whose filename does not end in .pdf or whose size exceeds the
\* maximum is rejected with a client error and has no effect (no file, no chunk, no
\* session created, no document id list changed); an upload of exactly the maximum
\* size is not rejected for its size.
C16_ValidationRejects ==
    [][last'.op = "upload" =>
          /\ (last'.status = "400") =
                 (~last'.filename_ok \/ last'.size > 10 * 1048576)
          /\ last'.status = "400" =>
                 /\ conversations' = conversations
                 /\ store' = store
                 /\ files' = files
                 /\ next_doc' = next_doc
                 /\ last'.doc_id = NoDoc]_vars

C16_OversizedRejected ==
    /\ last.op = "upload"
    /\ last.status = "400"
    /\ last.filename_ok
    /\ last.size = 10 * 1048576 + 1
    /\ last.conversation_id \notin DOMAIN conversations
    /\ store # {}

\* C17: the document context surfaced to a turn of a session holds only chunks of
\* documents attached to that session, never a chunk of a document uploaded only to
\* another session.
C17_NoCrossSessionExcerpt ==
    ChatHandled =>
        \A i \in 1..Len(Turn.rag_context) :
            Turn.rag_context[i].metadata.doc_id \in AttachedTo(last.conversation_id)

\* C18: after any sequence of uploads and deletions, whatever session id is passed to
\* a deletion, every document id in every session's list refers to a document that
\* still has a chunk in the store.
C18_AttachedDocumentsLive ==
    \A id \in DOMAIN conversations :
        \A d \in SeqToSet(conversations[id].document_ids) :
            \E e \in store : e.doc_id = d

\* C19 (as stated): the result the relevance gate inspects, the first one returned by
\* hybrid_query, has the minimum distance among the fetched candidates, so whenever
\* some candidate has distance <= 0.6 document context is surfaced.
Retrieved == ChatHandled /\ Turn.had_documents /\ ~Turn.rag_raised /\ Turn.rag_results # <<>>

Fetched == query(store, Embed(Turn.message), 2 * 5, NoDoc, "ok").results

C19_GateSeesNearest ==
    Retrieved =>
        /\ \A k \in 1..Len(Fetched) : TopDistance <= Fetched[k].distance
        /\ (\E k \in 1..Len(Fetched) : Fetched[k].distance <= 60) => Turn.rag_context # <<>>

\* C19 (amended): the result the relevance gate inspects, the first one returned by
\* hybrid_query, is the fetched candidate with the highest combined score, which need
\* not be the nearest one; document context is surfaced iff that result's distance is
\* <= 0.6, so it can be withheld although another candidate is within 0.6.
ScoreFor(text, result) ==
    LET keywords == Tokens(text) \ stop_words
        n == IF keywords = {} THEN 1 ELSE Cardinality(keywords)
        overlap == Cardinality({w \in keywords : w \in Tokens(result.chunk)})
    IN  7 * (200 - result.distance) * n + 3 * 200 * overlap

C19_GateSeesBestScore ==
    Retrieved =>
        /\ \E j \in 1..Len(Fetched) : Turn.rag_results[1] = Fetched[j]
        /\ \A k \in 1..Len(Fetched) :
               ScoreFor(Turn.message, Turn.rag_results[1])
                   >= ScoreFor(Turn.message, Fetched[k])
        /\ (Turn.rag_context # <<>>) = (TopDistance <= 60)

C19_NearerCandidateWithheld ==
    /\ Retrieved
    /\ TopDistance > 60
    /\ \E k \in 1..Len(Fetched) : Fetched[k].distance <= 60
    /\ Turn.rag_context = <<>>
    /\ last.status = "ok"
    /\ ~Turn.used_rag

\* C20: an accepted chat turn extends the session's messages by the caller's message
\* and then, only if the completion call succeeded, by exactly one assistant message
\* holding the answer; when the completion call fails the turn returns an error and
\* the messages stay extended by the caller's message alone.
MessagesBefore(id) == IF id \in DOMAIN conversations THEN Messages(id) ELSE <<Seed>>

C20_TurnAppends ==
    [][(last'.op = "chat" /\ last'.status # "400") =>
          LET id == last'.conversation_id
              asked == [role |-> last'.turn.role, content |-> last'.turn.message]
              reply == [role |-> "assistant", content |-> AnswerText]
          IN  /\ last'.status \in {"ok", "500"}
              /\ last'.status = "ok" =>
                     /\ "complete" \in last'.turn.calls
                     /\ ~last'.turn.completion_failed
                     /\ conversations'[id].messages = MessagesBefore(id) \o <<asked, reply>>
              /\ last'.status = "500" =>
                     conversations'[id].messages = MessagesBefore(id) \o <<asked>>
              /\ last'.turn.completion_failed => last'.status = "500"]_vars

C20_FailedTurnKeepsQuestion ==
    /\ last.op = "chat"
    /\ last.status = "500"
    /\ Turn.completion_failed
    /\ Len(Messages(last.conversation_id)) = 2
    /\ Messages(last.conversation_id)[2] = [role |-> Turn.role, content |-> Turn.message]
    /\ Turn.role = "user"

====
